---- MODULE Spec2Model ----
(***************************************************************************)
(* Model of network migration 0009_move_options_and_mtu: the relocation of *)
(* LAGG member device options to Interface rows, the extraction of the MTU *)
(* from the options and its consolidation on the LAGG parent Interface.    *)
(* Strings are sequences of one-character strings.                         *)
(***************************************************************************)
EXTENDS Integers, Sequences, FiniteSets, TLC

VARIABLES pc, schema, ifaces, members, laggs,
          mTodo, iTodo, lTodo, lagg, cmTodo, lowest_mtu,
          ifaces0, members0, extracted,
          fpc, lagg_deviceoptions, options,
          run, ifaces1,
          is_freenas, license, supports, sup_pc, sup_self, sup_ret,
          model, db_pass, instance, saves

mvars == <<pc, schema, ifaces, members, laggs, mTodo, iTodo, lTodo, lagg,
           cmTodo, lowest_mtu, ifaces0, members0, extracted>>
fvars == <<fpc, lagg_deviceoptions, options>>
\* a second run of the consolidation
rvars == <<run, ifaces1>>
\* system.Support
svars == <<is_freenas, license, supports, sup_pc, sup_self, sup_ret>>
\* system.Email / system.Advanced: the stored password and the loaded instance
evars == <<model, db_pass, instance, saves>>
ovars == <<rvars, svars, evars>>
vars == <<mvars, fvars, ovars>>

(* ---------------------------- bounds ----------------------------------- *)
\* number of physical NICs of the modelled system
MaxNics == 2
\* number of fragments a device_options string is assembled from
MaxFrags == 4
\* number of Support rows in the store before a call
MaxSupports == 2
\* number of save() calls on Email / Advanced instances
MaxSaves == 3

(* ---------------------------- strings ---------------------------------- *)
Digits == {"0", "1", "2", "3", "4", "5", "6", "7", "8", "9"}
Letters == {"a", "b", "d", "e", "f", "g", "i", "k", "l", "m", "n", "o",
            "p", "r", "t", "u", "w", "x"}
\* \w of the re module: letters, digits and the underscore
IsWord(c) == c \in Letters \cup Digits \cup {"_"}
\* \s of the re module
IsSpace(c) == c \in {" ", "\t"}

DigitVal == ("0" :> 0) @@ ("1" :> 1) @@ ("2" :> 2) @@ ("3" :> 3) @@ ("4" :> 4)
            @@ ("5" :> 5) @@ ("6" :> 6) @@ ("7" :> 7) @@ ("8" :> 8) @@ ("9" :> 9)
DigitChar == <<"0", "1", "2", "3", "4", "5", "6", "7", "8", "9">>

sEmpty == <<>>
sUp == <<"u", "p">>
sUpSp == <<"u", "p", " ">>
sSpUp == <<" ", "u", "p">>
sSpUpSp == <<" ", "u", "p", " ">>
sSp == <<" ">>
sDown == <<"d", "o", "w", "n">>
sDownSp == <<"d", "o", "w", "n", " ">>
sMtuSp == <<"m", "t", "u", " ">>
sMemberOf == <<"m", "e", "m", "b", "e", "r", " ", "o", "f", " ">>
s9000 == <<"9", "0", "0", "0">>
s1500 == <<"1", "5", "0", "0">>
s0 == <<"0">>

\* the None of Python, the NULL of the int_mtu column
None == -1

Min(S) == CHOOSE x \in S : \A y \in S : x <= y
Max(S) == CHOOSE x \in S : \A y \in S : x >= y

\* str.startswith
StartsWith(s, p) == Len(s) >= Len(p) /\ SubSeq(s, 1, Len(p)) = p
\* str.endswith
EndsWith(s, p) == Len(s) >= Len(p) /\ SubSeq(s, Len(s) - Len(p) + 1, Len(s)) = p
\* the `in` operator on strings
Contains(s, p) == \E i \in 1..(Len(s) - Len(p) + 1) : SubSeq(s, i, i + Len(p) - 1) = p

\* str.replace(old, ''): every non-overlapping occurrence, left to right
RECURSIVE Replace(_, _)
Replace(s, old) ==
    IF Len(s) < Len(old) THEN s
    ELSE IF SubSeq(s, 1, Len(old)) = old
         THEN Replace(SubSeq(s, Len(old) + 1, Len(s)), old)
         ELSE <<Head(s)>> \o Replace(Tail(s), old)

\* int() of a string of decimal digits
RECURSIVE ParseInt(_)
ParseInt(d) ==
    IF d = <<>> THEN 0
    ELSE 10 * ParseInt(SubSeq(d, 1, Len(d) - 1)) + DigitVal[d[Len(d)]]

(* ---------------- options relocation: the computed options ------------- *)
\* a plausible slip: the leading keyword removed without its separator
ComputeOptions_noSep(d) ==
    IF d # sUp
    THEN IF StartsWith(d, sUp) THEN Replace(d, sUp)
         ELSE IF EndsWith(d, sUp) THEN Replace(d, sUp)
         ELSE Replace(d, sSpUpSp)
    ELSE sEmpty

ComputeOptions(d) ==
    IF d # sUp
    THEN IF StartsWith(d, sUp) THEN Replace(d, sUpSp)
         ELSE IF EndsWith(d, sUp) THEN Replace(d, sSpUp)
         ELSE Replace(d, sSpUpSp)
    ELSE sEmpty

\* device_options strings: concatenations of at most MaxFrags fragments
Frags == {sUp, sUpSp, sSpUp, sSp, <<"x">>, sDown, <<"u">>}
RECURSIVE Concat(_)
Concat(fs) == IF fs = <<>> THEN <<>> ELSE Head(fs) \o Concat(Tail(fs))
DeviceOptionStrings ==
    UNION {{Concat(fs) : fs \in [1..n -> Frags]} : n \in 0..MaxFrags}

(* ------------------------- MTU extraction ------------------------------ *)
\* a slip: the pattern without its leading \b
TokenAt_noBoundary(s, i, e) ==
    /\ i >= 1 /\ i + 4 <= e /\ e <= Len(s)
    /\ SubSeq(s, i, i + 3) = sMtuSp
    /\ \A k \in (i + 4)..e : s[k] \in Digits
    /\ (e = Len(s) \/ ~IsWord(s[e + 1]))

\* \bmtu (?P<mtu>\d+)\b matches at index i of s, the digits ending at e
TokenAt(s, i, e) ==
    /\ i >= 1 /\ i + 4 <= e /\ e <= Len(s)
    /\ (i = 1 \/ ~IsWord(s[i - 1]))
    /\ SubSeq(s, i, i + 3) = sMtuSp
    /\ \A k \in (i + 4)..e : s[k] \in Digits
    /\ (e = Len(s) \/ ~IsWord(s[e + 1]))
HasToken(s, i) == \E e \in 1..Len(s) : TokenAt(s, i, e)
MatchStarts(s) == {i \in 1..Len(s) : HasToken(s, i)}
\* `mtu <N>` occurs in s as a token
HasMtuToken(s) == MatchStarts(s) # {}

\* RE_MTU.search: the greedy (?P<before>.*) makes the last token the match
RE_MTU_search(s) ==
    IF MatchStarts(s) = {} THEN [found |-> FALSE]
    ELSE LET i == Max(MatchStarts(s))
             e == CHOOSE k \in 1..Len(s) : TokenAt(s, i, k)
         IN [found |-> TRUE,
             before |-> SubSeq(s, 1, i - 1),
             mtu |-> SubSeq(s, i + 4, e),
             after |-> SubSeq(s, e + 1, Len(s))]

RECURSIVE LStripSpace(_)
LStripSpace(s) ==
    IF s # <<>> /\ IsSpace(Head(s)) THEN LStripSpace(Tail(s)) ELSE s
\* re.sub(r'\s{2,}', ' ', s)
RECURSIVE CollapseSpaces(_)
CollapseSpaces(s) ==
    IF s = <<>> THEN s
    ELSE IF Len(s) >= 2 /\ IsSpace(s[1]) /\ IsSpace(s[2])
         THEN <<" ">> \o CollapseSpaces(LStripSpace(s))
         ELSE <<Head(s)>> \o CollapseSpaces(Tail(s))

\* a slip: the options are not cleaned of the spaces the token leaves
ExtractMtu_noCollapse(i) ==
    IF i.int_options = sEmpty THEN i
    ELSE LET reg == RE_MTU_search(i.int_options)
         IN IF ~reg.found THEN i
            ELSE [i EXCEPT !.int_mtu = ParseInt(reg.mtu),
                           !.int_options = reg.before \o reg.after]

\* the body of the first loop of move_mtu_from_options on one record
ExtractMtu(i) ==
    IF i.int_options = sEmpty THEN i
    ELSE LET reg == RE_MTU_search(i.int_options)
         IN IF ~reg.found THEN i
            ELSE [i EXCEPT !.int_mtu = ParseInt(reg.mtu),
                           !.int_options = CollapseSpaces(reg.before \o reg.after)]

\* truth value of an int_mtu: None and 0 are both false
Truthy(m) == m # None /\ m # 0

(* ----------------------------- the store ------------------------------- *)
Laggs == {1, 2}
DevOpts == {sUp, sUpSp \o sMtuSp \o s9000, sUpSp \o sMtuSp \o s1500,
            sUpSp \o sMtuSp \o s0}
ParentOpts == {sEmpty, sMtuSp \o s9000}
RowOpts == sMtuSp \o s9000 \o sSp \o sMtuSp \o s1500

NicName(n) == <<"e", "m", DigitChar[n]>>
LaggName(l) == <<"l", "a", "g", "g", DigitChar[l]>>
LaggLabel(l) == <<"t", "r", "u", "n", "k", DigitChar[l]>>

\* Interfaces.objects.filter(int_interface=nic): the primary keys found
Lookup(ifs, nic) == {k \in DOMAIN ifs : ifs[k].int_interface = nic}
\* lagg.lagginterfacemembers_set
MembersOf(ms, l) == {m \in DOMAIN ms : ms[m].lagg_interfacegroup = l}

\* one NIC of the system: the LAGG it is a member of (0: none), the member's
\* device options, and whether an Interface row exists for it
NicCfg == {c \in [group : {0} \cup Laggs, devopts : DevOpts, row : BOOLEAN] :
              c.group = 0 => (c.devopts = sUp /\ c.row)}

RECURSIVE MkMembers(_, _)
MkMembers(cfg, n) ==
    IF n = 0 THEN <<>>
    ELSE IF cfg[n].group # 0
         THEN Append(MkMembers(cfg, n - 1),
                     [lagg_physnic |-> NicName(n),
                      lagg_deviceoptions |-> cfg[n].devopts,
                      lagg_interfacegroup |-> cfg[n].group])
         ELSE MkMembers(cfg, n - 1)

RECURSIVE MkNicRows(_, _)
MkNicRows(cfg, n) ==
    IF n = 0 THEN <<>>
    ELSE IF cfg[n].row
         THEN Append(MkNicRows(cfg, n - 1),
                     [int_interface |-> NicName(n),
                      int_name |-> NicName(n),
                      int_options |-> RowOpts])
         ELSE MkNicRows(cfg, n - 1)

ParentRow(l, o) ==
    [int_interface |-> LaggName(l), int_name |-> LaggLabel(l), int_options |-> o]

(* ------------------------------- Init ---------------------------------- *)
RIdle ==
    /\ run = 1
    /\ ifaces1 = <<>>

SIdle ==
    /\ is_freenas = FALSE
    /\ license = "none"
    /\ supports = <<>>
    /\ sup_pc = "idle"
    /\ sup_self = 0
    /\ sup_ret = <<>>

EIdle ==
    /\ model = "idle"
    /\ db_pass = [text |-> "", layers |-> 0]
    /\ instance = <<>>
    /\ saves = 0

OIdle == RIdle /\ SIdle /\ EIdle

FIdle ==
    /\ fpc = "idle"
    /\ lagg_deviceoptions = sEmpty
    /\ options = sEmpty

Init ==
    /\ \E cfg \in [1..MaxNics -> NicCfg], po \in ParentOpts :
          /\ ifaces = <<ParentRow(1, po), ParentRow(2, sEmpty)>>
                         \o MkNicRows(cfg, MaxNics)
          /\ members = MkMembers(cfg, MaxNics)
    /\ laggs = [l \in Laggs |-> [lagg_interface |-> l]]
    /\ pc = "relocate"
    /\ schema = {"lagg_deviceoptions"}
    /\ mTodo = DOMAIN members
    /\ iTodo = {}
    /\ lTodo = {}
    /\ lagg = 0
    /\ cmTodo = {}
    /\ lowest_mtu = None
    /\ ifaces0 = ifaces
    /\ members0 = members
    /\ extracted = <<>>
    /\ FIdle
    /\ OIdle

(* ------------------- move_laggmember_options --------------------------- *)
\* int_name of a row created for a member of the LAGG whose parent is p
MemberName_label(p) == sMemberOf \o p.int_name
MemberName(p) == sMemberOf \o p.int_interface

\* a slip: an empty computed value does not overwrite
SaveOptions_skipEmpty(ifs, k, o) ==
    IF o = sEmpty THEN ifs ELSE [ifs EXCEPT ![k].int_options = o]
\* interface.int_options = options; interface.save()
SaveOptions(ifs, k, o) == [ifs EXCEPT ![k].int_options = o]

CreateInterface(ifs, nic, name, o) ==
    Append(ifs, [int_interface |-> nic, int_name |-> name, int_options |-> o])

\* one iteration of the loop over LAGGInterfaceMembers.objects.all()
Relocate(m) ==
    /\ pc = "relocate"
    /\ m \in mTodo
    /\ LET laggmember == members[m]
           interface == Lookup(ifaces, laggmember.lagg_physnic)
           o == ComputeOptions(laggmember.lagg_deviceoptions)
           parent == ifaces[laggs[laggmember.lagg_interfacegroup].lagg_interface]
       IN ifaces' = IF interface # {}
                    THEN SaveOptions(ifaces, Min(interface), o)
                    ELSE CreateInterface(ifaces, laggmember.lagg_physnic,
                                         MemberName(parent), o)
    /\ mTodo' = mTodo \ {m}
    /\ UNCHANGED <<pc, schema, members, laggs, iTodo, lTodo, lagg, cmTodo,
                   lowest_mtu, ifaces0, members0, extracted, fvars, ovars>>

\* migrations.RemoveField(lagginterfacemembers, lagg_deviceoptions), run
\* once the first RunPython has returned
RemoveField ==
    /\ pc = "relocate"
    /\ mTodo = {}
    /\ members' = [m \in DOMAIN members |->
                      [lagg_physnic |-> members[m].lagg_physnic,
                       lagg_interfacegroup |-> members[m].lagg_interfacegroup]]
    /\ schema' = schema \ {"lagg_deviceoptions"}
    /\ pc' = "add_field"
    /\ UNCHANGED <<ifaces, laggs, mTodo, iTodo, lTodo, lagg, cmTodo,
                   lowest_mtu, ifaces0, members0, extracted, fvars, ovars>>

\* migrations.AddField(interfaces, int_mtu, null=True); the second RunPython
\* then evaluates Interfaces.objects.all()
AddField ==
    /\ pc = "add_field"
    /\ ifaces' = [k \in DOMAIN ifaces |->
                     [int_interface |-> ifaces[k].int_interface,
                      int_name |-> ifaces[k].int_name,
                      int_options |-> ifaces[k].int_options,
                      int_mtu |-> None]]
    /\ schema' = schema \cup {"int_mtu"}
    /\ iTodo' = DOMAIN ifaces
    /\ pc' = "extract"
    /\ UNCHANGED <<members, laggs, mTodo, lTodo, lagg, cmTodo,
                   lowest_mtu, ifaces0, members0, extracted, fvars, ovars>>

(* ---------------------- move_mtu_from_options -------------------------- *)
\* one iteration of the loop over Interfaces.objects.all()
Extract(k) ==
    /\ pc = "extract"
    /\ k \in iTodo
    /\ ifaces' = [ifaces EXCEPT ![k] = ExtractMtu(ifaces[k])]
    /\ iTodo' = iTodo \ {k}
    /\ UNCHANGED <<pc, schema, members, laggs, mTodo, lTodo, lagg, cmTodo,
                   lowest_mtu, ifaces0, members0, extracted, fvars, ovars>>

\* a slip: the second loop entered while records are still to be extracted
ExtractDone_early ==
    /\ pc = "extract"
    /\ pc' = "consolidate"
    /\ lTodo' = DOMAIN laggs
    /\ extracted' = ifaces
    /\ UNCHANGED <<schema, ifaces, members, laggs, mTodo, iTodo, lagg, cmTodo,
                   lowest_mtu, ifaces0, members0, fvars, ovars>>

\* the first loop is over: LAGGInterface.objects.all() is evaluated
ExtractDone ==
    /\ pc = "extract"
    /\ iTodo = {}
    /\ pc' = "consolidate"
    /\ lTodo' = DOMAIN laggs
    /\ extracted' = ifaces
    /\ UNCHANGED <<schema, ifaces, members, laggs, mTodo, iTodo, lagg, cmTodo,
                   lowest_mtu, ifaces0, members0, fvars, ovars>>

\* for lagg in ...: lowest_mtu = None
LaggBegin(l) ==
    /\ pc = "consolidate"
    /\ lagg = 0
    /\ l \in lTodo
    /\ lagg' = l
    /\ lowest_mtu' = None
    /\ cmTodo' = MembersOf(members, l)
    /\ UNCHANGED <<pc, schema, ifaces, members, laggs, mTodo, iTodo, lTodo,
                   ifaces0, members0, extracted, fvars, ovars>>

\* a slip: the mtu of the member visited last wins
LowerMtu_last(lowest, mtu) == mtu
\* if not lowest_mtu or interface.int_mtu < lowest_mtu: lowest_mtu = ...
LowerMtu(lowest, mtu) == IF ~Truthy(lowest) \/ mtu < lowest THEN mtu ELSE lowest

\* one iteration of the loop over lagg.lagginterfacemembers_set.all()
LaggMember(m) ==
    /\ pc = "consolidate"
    /\ lagg # 0
    /\ m \in cmTodo
    /\ LET interface == Lookup(ifaces, members[m].lagg_physnic)
           k == Min(interface)
       IN IF interface # {} /\ Truthy(ifaces[k].int_mtu)
          THEN /\ lowest_mtu' = LowerMtu(lowest_mtu, ifaces[k].int_mtu)
               /\ ifaces' = [ifaces EXCEPT ![k].int_mtu = None]
          ELSE UNCHANGED <<lowest_mtu, ifaces>>
    /\ cmTodo' = cmTodo \ {m}
    /\ UNCHANGED <<pc, schema, members, laggs, mTodo, iTodo, lTodo, lagg,
                   ifaces0, members0, extracted, fvars, ovars>>

\* a slip: the parent's mtu is assigned without the test of lowest_mtu
LaggEnd_unconditional ==
    /\ pc = "consolidate"
    /\ lagg # 0
    /\ cmTodo = {}
    /\ ifaces' = [ifaces EXCEPT ![laggs[lagg].lagg_interface].int_mtu = lowest_mtu]
    /\ lTodo' = lTodo \ {lagg}
    /\ lagg' = 0
    /\ UNCHANGED <<pc, schema, members, laggs, mTodo, iTodo, cmTodo, lowest_mtu,
                   ifaces0, members0, extracted, fvars, ovars>>

\* if lowest_mtu: lagg.lagg_interface.int_mtu = lowest_mtu
LaggEnd ==
    /\ pc = "consolidate"
    /\ lagg # 0
    /\ cmTodo = {}
    /\ ifaces' = IF Truthy(lowest_mtu)
                 THEN [ifaces EXCEPT ![laggs[lagg].lagg_interface].int_mtu = lowest_mtu]
                 ELSE ifaces
    /\ lTodo' = lTodo \ {lagg}
    /\ lagg' = 0
    /\ UNCHANGED <<pc, schema, members, laggs, mTodo, iTodo, cmTodo, lowest_mtu,
                   ifaces0, members0, extracted, fvars, ovars>>

\* the second loop is over: the migration has been applied
Finish ==
    /\ pc = "consolidate"
    /\ lagg = 0
    /\ lTodo = {}
    /\ pc' = "done"
    /\ UNCHANGED <<schema, ifaces, members, laggs, mTodo, iTodo, lTodo, lagg,
                   cmTodo, lowest_mtu, ifaces0, members0, extracted, fvars, ovars>>

Next ==
    \/ \E m \in DOMAIN members : Relocate(m)
    \/ RemoveField
    \/ AddField
    \/ \E k \in DOMAIN ifaces : Extract(k)
    \/ ExtractDone
    \/ \E l \in DOMAIN laggs : LaggBegin(l)
    \/ \E m \in DOMAIN members : LaggMember(m)
    \/ LaggEnd
    \/ Finish

Spec == Init /\ [][Next]_vars

(* ------- the computed options as a function of device_options ---------- *)
MIdle ==
    /\ pc = "idle"
    /\ schema = {"lagg_deviceoptions"}
    /\ ifaces = <<>>
    /\ members = <<>>
    /\ laggs = <<>>
    /\ mTodo = {}
    /\ iTodo = {}
    /\ lTodo = {}
    /\ lagg = 0
    /\ cmTodo = {}
    /\ lowest_mtu = None
    /\ ifaces0 = <<>>
    /\ members0 = <<>>
    /\ extracted = <<>>

InitOptions ==
    /\ MIdle
    /\ fpc = "in"
    /\ lagg_deviceoptions \in DeviceOptionStrings
    /\ options = sEmpty
    /\ OIdle

\* lines 18-25 on one member
OptionsStep ==
    /\ fpc = "in"
    /\ options' = ComputeOptions(lagg_deviceoptions)
    /\ fpc' = "out"
    /\ UNCHANGED <<lagg_deviceoptions, mvars, ovars>>

NextOptions == OptionsStep

SpecOptions == InitOptions /\ [][NextOptions]_vars

(* --------- MTU extraction as a function of one record's options -------- *)
sFooMtuBar == <<"f", "o", "o", " ", "m", "t", "u", " ", "9", "0", "0", "0",
                " ", "b", "a", "r">>
sFooBar == <<"f", "o", "o", " ", "b", "a", "r">>
OptionFrags == {sMtuSp, <<"9">>, <<"0">>, sSp, <<"x">>, sMtuSp \o <<"1", " ">>}
\* int_options strings: concatenations of at most MaxFrags fragments
OptionStrings ==
    UNION {{Concat(fs) : fs \in [1..n -> OptionFrags]} : n \in 0..MaxFrags}
       \cup {sFooMtuBar}

\* the store holds one Interface record, the int_mtu column has been added
InitMtu ==
    /\ \E o \in OptionStrings :
          ifaces = <<[int_interface |-> NicName(1), int_name |-> NicName(1),
                      int_options |-> o, int_mtu |-> None]>>
    /\ pc = "extract"
    /\ schema = {"int_mtu"}
    /\ members = <<>>
    /\ laggs = <<>>
    /\ mTodo = {}
    /\ iTodo = DOMAIN ifaces
    /\ lTodo = {}
    /\ lagg = 0
    /\ cmTodo = {}
    /\ lowest_mtu = None
    /\ ifaces0 = ifaces
    /\ members0 = <<>>
    /\ extracted = <<>>
    /\ FIdle
    /\ OIdle

\* the loop of lines 43-51 is run a second time over the store
ExtractAgain ==
    /\ pc = "extract"
    /\ iTodo = {}
    /\ extracted = <<>>
    /\ extracted' = ifaces
    /\ iTodo' = DOMAIN ifaces
    /\ UNCHANGED <<pc, schema, ifaces, members, laggs, mTodo, lTodo, lagg, cmTodo,
                   lowest_mtu, ifaces0, members0, fvars, ovars>>

NextMtu ==
    \/ \E k \in DOMAIN ifaces : Extract(k)
    \/ ExtractAgain

SpecMtu == InitMtu /\ [][NextMtu]_vars

(* -------- the consolidation as an operation on a store of records ------ *)
MtuValues == {None, 0, 1500, 9000}
ParentMtus == {None, 9000}
\* one NIC: the LAGG it is a member of (0: none), whether an Interface row
\* exists for it, and the int_mtu of that row
ConsCfg == {c \in [group : {0} \cup Laggs, row : BOOLEAN, mtu : MtuValues] :
               /\ ~c.row => (c.mtu = None /\ c.group # 0)}

RECURSIVE MkConsMembers(_, _)
MkConsMembers(cfg, n) ==
    IF n = 0 THEN <<>>
    ELSE IF cfg[n].group # 0
         THEN Append(MkConsMembers(cfg, n - 1),
                     [lagg_physnic |-> NicName(n),
                      lagg_interfacegroup |-> cfg[n].group])
         ELSE MkConsMembers(cfg, n - 1)

RECURSIVE MkConsRows(_, _)
MkConsRows(cfg, n) ==
    IF n = 0 THEN <<>>
    ELSE IF cfg[n].row
         THEN Append(MkConsRows(cfg, n - 1),
                     [int_interface |-> NicName(n), int_name |-> NicName(n),
                      int_options |-> sEmpty, int_mtu |-> cfg[n].mtu])
         ELSE MkConsRows(cfg, n - 1)

ConsParentRow(l, mtu) ==
    [int_interface |-> LaggName(l), int_name |-> LaggLabel(l),
     int_options |-> sEmpty, int_mtu |-> mtu]

\* the second loop of move_mtu_from_options is about to start
InitCons ==
    /\ \E cfg \in [1..MaxNics -> ConsCfg], p1, p2 \in ParentMtus :
          /\ ifaces = <<ConsParentRow(1, p1), ConsParentRow(2, p2)>>
                         \o MkConsRows(cfg, MaxNics)
          /\ members = MkConsMembers(cfg, MaxNics)
    /\ laggs = [l \in Laggs |-> [lagg_interface |-> l]]
    /\ pc = "consolidate"
    /\ schema = {"int_mtu"}
    /\ mTodo = {}
    /\ iTodo = {}
    /\ lTodo = DOMAIN laggs
    /\ lagg = 0
    /\ cmTodo = {}
    /\ lowest_mtu = None
    /\ ifaces0 = ifaces
    /\ members0 = members
    /\ extracted = ifaces
    /\ FIdle
    /\ OIdle

\* the loop of lines 53-68 is run a second time over the store
Rerun ==
    /\ pc = "done"
    /\ run = 1
    /\ run' = 2
    /\ ifaces1' = ifaces
    /\ pc' = "consolidate"
    /\ lTodo' = DOMAIN laggs
    /\ UNCHANGED <<schema, ifaces, members, laggs, mTodo, iTodo, lagg, cmTodo,
                   lowest_mtu, ifaces0, members0, extracted, fvars, svars, evars>>

NextCons ==
    \/ \E l \in DOMAIN laggs : LaggBegin(l)
    \/ \E m \in DOMAIN members : LaggMember(m)
    \/ LaggEnd
    \/ Finish
    \/ Rerun

SpecCons == InitCons /\ [][NextCons]_vars

(* --------------------------- system.Support ---------------------------- *)
\* the values of the NullBooleanField `enabled`, as Python values
NullBooleans == {"True", "False", "None"}
\* licenselib.license.ContractType, and "none" when get_license() has no license
ContractTypes == {"gold", "silver", "bronze", "standard"}
Licenses == {"none"} \cup ContractTypes

\* Python's `a and b`: a when a is false, else b
PyAnd(a, b) == IF a \in {"False", "None"} THEN a ELSE b

\* cls.objects.order_by('-id')[0], or cls.objects.create() when there is none
LatestOrCreate(rows) ==
    IF rows = <<>> THEN <<[enabled |-> "False"]>> ELSE rows

\* Support.is_available(support): the returned pair and the rows afterwards;
\* support is the primary key of the instance given, 0 for None
is_available(rows, freenas, lic, support) ==
    IF freenas THEN [value |-> <<"False", support>>, rows |-> rows]
    ELSE LET rows2 == IF support = 0 THEN LatestOrCreate(rows) ELSE rows
             sup == IF support = 0 THEN Len(rows2) ELSE support
         IN IF lic = "none" THEN [value |-> <<"False", sup>>, rows |-> rows2]
            ELSE IF lic \in {"silver", "gold"}
                 THEN [value |-> <<"True", sup>>, rows |-> rows2]
                 ELSE [value |-> <<"False", sup>>, rows |-> rows2]

\* Support.is_enabled() on the instance with primary key self
is_enabled(rows, freenas, lic, self) ==
    PyAnd(is_available(rows, freenas, lic, self).value[1], rows[self].enabled)

InitSupport ==
    /\ MIdle
    /\ FIdle
    /\ RIdle
    /\ EIdle
    /\ is_freenas \in BOOLEAN
    /\ license \in Licenses
    /\ supports \in UNION {[1..n -> [enabled : NullBooleans]] : n \in 0..MaxSupports}
    /\ sup_pc = "ready"
    /\ sup_self = 0
    /\ sup_ret = <<>>

\* a call of Support.is_available(support), support None or an instance
CallIsAvailable(support) ==
    /\ sup_pc = "ready"
    /\ LET r == is_available(supports, is_freenas, license, support)
       IN /\ sup_ret' = <<[fn |-> "is_available", value |-> r.value]>>
          /\ supports' = r.rows
    /\ sup_self' = support
    /\ sup_pc' = "returned"
    /\ UNCHANGED <<is_freenas, license, mvars, fvars, rvars, evars>>

\* a call of is_enabled() on a loaded instance
CallIsEnabled(self) ==
    /\ sup_pc = "ready"
    /\ self \in DOMAIN supports
    /\ sup_ret' = <<[fn |-> "is_enabled",
                     value |-> is_enabled(supports, is_freenas, license, self)]>>
    /\ sup_self' = self
    /\ sup_pc' = "returned"
    /\ UNCHANGED <<is_freenas, license, supports, mvars, fvars, rvars, evars>>

\* the caller is ready for another call
NextCall ==
    /\ sup_pc = "returned"
    /\ sup_pc' = "ready"
    /\ sup_self' = 0
    /\ sup_ret' = <<>>
    /\ UNCHANGED <<is_freenas, license, supports, mvars, fvars, rvars, evars>>

NextSupport ==
    \/ \E support \in 0..(MaxSupports + 1) :
          (support \in {0} \cup DOMAIN supports) /\ CallIsAvailable(support)
    \/ \E self \in 1..(MaxSupports + 1) : CallIsEnabled(self)
    \/ NextCall

SpecSupport == InitSupport /\ [][NextSupport]_vars

(* ------------------ system.Email / system.Advanced --------------------- *)
Passwords == {"a", "b"}
Plain(t) == [text |-> t, layers |-> 0]
sNoPass == Plain("")
\* notifier().pwenc_encrypt
pwenc_encrypt(v) == [v EXCEPT !.layers = @ + 1]
\* notifier().pwenc_decrypt succeeds on v
CanDecrypt(v) == v.layers > 0
\* notifier().pwenc_decrypt
pwenc_decrypt(v) == [v EXCEPT !.layers = @ - 1]

InitPassword ==
    /\ MIdle
    /\ FIdle
    /\ RIdle
    /\ SIdle
    /\ model \in {"Email", "Advanced"}
    /\ db_pass \in {sNoPass} \cup {pwenc_encrypt(Plain(t)) : t \in Passwords}
    /\ instance = <<>>
    /\ saves = 0

\* __init__: the instance is loaded from the store and the password decrypted
Load ==
    /\ model \in {"Email", "Advanced"}
    /\ LET pass == IF db_pass # sNoPass
                   THEN IF CanDecrypt(db_pass) THEN pwenc_decrypt(db_pass)
                        ELSE sNoPass
                   ELSE db_pass
       IN instance' = <<[pass |-> pass, encrypted |-> FALSE]>>
    /\ UNCHANGED <<model, db_pass, saves, mvars, fvars, rvars, svars>>

\* a password typed by the administrator is assigned to the attribute
Assign(t) ==
    /\ instance # <<>>
    /\ instance' = <<[instance[1] EXCEPT !.pass = Plain(t)]>>
    /\ UNCHANGED <<model, db_pass, saves, mvars, fvars, rvars, svars>>

\* the instance after the first three lines of save()
SavedInstance(i) ==
    IF i.pass # sNoPass /\ ~i.encrypted
    THEN [pass |-> pwenc_encrypt(i.pass), encrypted |-> TRUE]
    ELSE i

\* save(): encrypt unless already done, then write the row
Save ==
    /\ instance # <<>>
    /\ saves < MaxSaves
    /\ instance' = <<SavedInstance(instance[1])>>
    /\ db_pass' = instance'[1].pass
    /\ saves' = saves + 1
    /\ UNCHANGED <<model, mvars, fvars, rvars, svars>>

NextPassword ==
    \/ Load
    \/ \E t \in Passwords \cup {""} : Assign(t)
    \/ Save

SpecPassword == InitPassword /\ [][NextPassword]_vars

(* ---- extraction and consolidation over any layout of LAGG members ----- *)
OrderNicOpts == {sEmpty, sMtuSp \o s1500, sMtuSp \o s9000}
\* the LAGGs the device of the first LAGG is itself a member NIC of
NestedGroups == {{}, {1}, {2}}

\* the member records of the device named nic, one per LAGG of gs
MemberRecords(nic, gs) ==
    (IF 1 \in gs THEN <<[lagg_physnic |-> nic, lagg_interfacegroup |-> 1]>> ELSE <<>>)
       \o (IF 2 \in gs THEN <<[lagg_physnic |-> nic, lagg_interfacegroup |-> 2]>>
           ELSE <<>>)

RECURSIVE MkOrderMembers(_, _)
MkOrderMembers(cfg, n) ==
    IF n = 0 THEN <<>>
    ELSE MkOrderMembers(cfg, n - 1) \o MemberRecords(NicName(n), cfg[n].groups)

RECURSIVE MkOrderRows(_, _)
MkOrderRows(cfg, n) ==
    IF n = 0 THEN <<>>
    ELSE Append(MkOrderRows(cfg, n - 1),
                [int_interface |-> NicName(n), int_name |-> NicName(n),
                 int_options |-> cfg[n].opts, int_mtu |-> None])

OrderParentRow(l, o) ==
    [int_interface |-> LaggName(l), int_name |-> LaggLabel(l),
     int_options |-> o, int_mtu |-> None]

\* move_mtu_from_options is about to start; a NIC may be a member of both
\* LAGGs and the device of the first LAGG may be a member NIC
InitOrder ==
    /\ \E cfg \in [1..MaxNics -> [groups : SUBSET Laggs, opts : OrderNicOpts]],
          g0 \in NestedGroups, po \in ParentOpts :
          /\ ifaces = <<OrderParentRow(1, po), OrderParentRow(2, sEmpty)>>
                         \o MkOrderRows(cfg, MaxNics)
          /\ members = MkOrderMembers(cfg, MaxNics) \o MemberRecords(LaggName(1), g0)
    /\ laggs = [l \in Laggs |-> [lagg_interface |-> l]]
    /\ pc = "extract"
    /\ schema = {"int_mtu"}
    /\ mTodo = {}
    /\ iTodo = DOMAIN ifaces
    /\ lTodo = {}
    /\ lagg = 0
    /\ cmTodo = {}
    /\ lowest_mtu = None
    /\ ifaces0 = ifaces
    /\ members0 = members
    /\ extracted = <<>>
    /\ FIdle
    /\ OIdle

NextOrder ==
    \/ \E k \in DOMAIN ifaces : Extract(k)
    \/ ExtractDone
    \/ \E l \in DOMAIN laggs : LaggBegin(l)
    \/ \E m \in DOMAIN members : LaggMember(m)
    \/ LaggEnd
    \/ Finish

SpecOrder == InitOrder /\ [][NextOrder]_vars

(* ============================== claims ================================= *)
Done == pc = "done"
Parent(l) == laggs[l].lagg_interface
\* the Interface rows of the member NICs of LAGG l
MemberRows(l) ==
    UNION {Lookup(ifaces, members[m].lagg_physnic) : m \in MembersOf(members, l)}

\* C1: after the complete migration no Interface's options contains an
\* `mtu <N>` token, whatever the initial records were.
C1_NoMtuTokenLeft ==
    Done => \A k \in DOMAIN ifaces : ~HasMtuToken(ifaces[k].int_options)

\* C2: after consolidation, the parent Interface of every LAGG that has a
\* member whose Interface row carried an extracted MTU has the minimum of
\* the MTUs its members' rows carried.
C2_ParentHasMinimum ==
    Done => \A l \in DOMAIN laggs :
               LET carrying == {k \in MemberRows(l) : extracted[k].int_mtu # None}
               IN carrying # {} =>
                     ifaces[Parent(l)].int_mtu =
                        Min({extracted[k].int_mtu : k \in carrying})

\* C3: after consolidation every Interface row of a member NIC that had a
\* non-null mtu (0 included) was counted in the minimum of its LAGG (which is
\* therefore no greater) and has a null mtu.
C3_MemberMtuCleared ==
    Done => \A l \in DOMAIN laggs : \A k \in MemberRows(l) :
               extracted[k].int_mtu # None =>
                  /\ ifaces[k].int_mtu = None
                  /\ ifaces[Parent(l)].int_mtu # None
                  /\ ifaces[Parent(l)].int_mtu <= extracted[k].int_mtu

\* device_options of the form `up mtu <N>`
IsUpMtu(d) ==
    /\ StartsWith(d, sUpSp \o sMtuSp)
    /\ Len(d) > 7
    /\ \A i \in 8..Len(d) : d[i] \in Digits
UpMtuValue(d) == ParseInt(SubSeq(d, 8, Len(d)))

\* C4: for a LAGG whose members all have device_options `up mtu <N>`, the
\* complete migration leaves every member's Interface row with empty options
\* and a null mtu, and the parent Interface with the minimum N.
C4_UpMtuMembers ==
    Done => \A l \in DOMAIN laggs :
               LET ms == MembersOf(members0, l)
               IN (ms # {} /\ \A m \in ms : IsUpMtu(members0[m].lagg_deviceoptions)) =>
                     /\ \A m \in ms :
                           /\ Lookup(ifaces, members0[m].lagg_physnic) # {}
                           /\ \A k \in Lookup(ifaces, members0[m].lagg_physnic) :
                                 /\ ifaces[k].int_options = sEmpty
                                 /\ ifaces[k].int_mtu = None
                     /\ ifaces[Parent(l)].int_mtu =
                           Min({UpMtuValue(members0[m].lagg_deviceoptions) : m \in ms})

Computed == fpc = "out"
\* device_options without its first n characters / its last n characters
DropFirst(d, n) == SubSeq(d, n + 1, Len(d))
DropLast(d, n) == SubSeq(d, 1, Len(d) - n)

\* C5 as stated: `up` gives the empty string and `up ` + rest gives rest
\* exactly, for every rest.
C5_LeadingUpExact ==
    Computed =>
       /\ lagg_deviceoptions = sUp => options = sEmpty
       /\ StartsWith(lagg_deviceoptions, sUpSp) =>
             options = DropFirst(lagg_deviceoptions, 3)

\* C5 amended: `up` gives the empty string; `up ` + rest gives rest with every
\* occurrence of `up ` inside rest removed too, hence rest exactly when rest
\* contains no `up `.
C5_LeadingUp ==
    Computed =>
       /\ lagg_deviceoptions = sUp => options = sEmpty
       /\ StartsWith(lagg_deviceoptions, sUpSp) =>
             LET rest == DropFirst(lagg_deviceoptions, 3)
             IN /\ options = Replace(rest, sUpSp)
                /\ ~Contains(rest, sUpSp) => options = rest
                /\ Contains(rest, sUpSp) => Len(options) < Len(rest)

C5_Witness ==
    /\ Computed
    /\ StartsWith(lagg_deviceoptions, sUpSp)
    /\ ~Contains(DropFirst(lagg_deviceoptions, 3), sUpSp)
    /\ options = DropFirst(lagg_deviceoptions, 3)
    /\ Len(options) >= 2

\* C6 as stated: rest + ` up`, not starting with `up`, gives rest exactly,
\* for every rest.
C6_TrailingUpExact ==
    Computed =>
       ((EndsWith(lagg_deviceoptions, sSpUp) /\ ~StartsWith(lagg_deviceoptions, sUp))
           => options = DropLast(lagg_deviceoptions, 3))

\* C6 amended: rest + ` up`, not starting with `up`, gives rest with every
\* occurrence of ` up` inside rest removed too, hence rest exactly when rest
\* contains no ` up`.
C6_TrailingUp ==
    Computed =>
       ((EndsWith(lagg_deviceoptions, sSpUp) /\ ~StartsWith(lagg_deviceoptions, sUp))
           => LET rest == DropLast(lagg_deviceoptions, 3)
              IN /\ options = Replace(rest, sSpUp)
                 /\ ~Contains(rest, sSpUp) => options = rest
                 /\ Contains(rest, sSpUp) => Len(options) < Len(rest))

C6_Witness ==
    /\ Computed
    /\ EndsWith(lagg_deviceoptions, sSpUp)
    /\ ~StartsWith(lagg_deviceoptions, sUp)
    /\ ~Contains(DropLast(lagg_deviceoptions, 3), sSpUp)
    /\ options = DropLast(lagg_deviceoptions, 3)
    /\ Len(options) >= 2

\* C7: pre + ` up ` + post (pre and post not empty), neither starting nor
\* ending with `up`, gives pre + ` ` + post with double spaces collapsed.
C7_InteriorUp ==
    Computed =>
       \A i \in 2..(Len(lagg_deviceoptions) - 4) :
          (/\ SubSeq(lagg_deviceoptions, i, i + 3) = sSpUpSp
           /\ ~StartsWith(lagg_deviceoptions, sUp)
           /\ ~EndsWith(lagg_deviceoptions, sUp))
             => options = CollapseSpaces(SubSeq(lagg_deviceoptions, 1, i - 1) \o sSp
                             \o DropFirst(lagg_deviceoptions, i + 3))

\* C8: the state keyword `down` is stripped like `up`: `down` gives the empty
\* string and `down ` + rest gives options without the keyword.
C8_DownStripped ==
    Computed =>
       /\ lagg_deviceoptions = sDown => options = sEmpty
       /\ StartsWith(lagg_deviceoptions, sDownSp) =>
             /\ Len(options) <= Len(lagg_deviceoptions) - 5
             /\ ~StartsWith(options, sDown)

\* the relocation step of member m
RelocStep(m) == pc = "relocate" /\ m \in mTodo /\ mTodo' = mTodo \ {m}
ParentOfMember(m) == ifaces[Parent(members[m].lagg_interfacegroup)]

\* C9: a member whose NIC has no Interface row gets exactly one new row, with
\* the NIC as physical id, the name `member of <parent interface>` and the
\* computed options, the existing rows being kept; once relocation is over
\* every member has a row.
C9_CreatesRow ==
    /\ [][\A m \in DOMAIN members :
            (RelocStep(m) /\ Lookup(ifaces, members[m].lagg_physnic) = {}) =>
               /\ Len(ifaces') = Len(ifaces) + 1
               /\ SubSeq(ifaces', 1, Len(ifaces)) = ifaces
               /\ ifaces'[Len(ifaces')] =
                     [int_interface |-> members[m].lagg_physnic,
                      int_name |-> sMemberOf \o ParentOfMember(m).int_interface,
                      int_options |-> ComputeOptions(members[m].lagg_deviceoptions)]
               /\ Cardinality(Lookup(ifaces', members[m].lagg_physnic)) = 1]_vars
    /\ []((pc # "relocate" \/ mTodo = {}) =>
            \A m \in DOMAIN members : Lookup(ifaces, members[m].lagg_physnic) # {})

C9_Witness ==
    /\ pc = "relocate"
    /\ mTodo = {}
    /\ \E k \in DOMAIN ifaces :
          /\ k > Len(ifaces0)
          /\ ifaces[k].int_name = sMemberOf \o LaggName(2)
          /\ ifaces[k].int_options # sEmpty

\* C10: a member whose NIC has an Interface row gets that row's options
\* overwritten with the computed value (an empty one too); no row is created,
\* the row's name and physical id and every other row are unchanged.
C10_OverwritesRow ==
    [][\A m \in DOMAIN members :
         (RelocStep(m) /\ Lookup(ifaces, members[m].lagg_physnic) # {}) =>
            /\ DOMAIN ifaces' = DOMAIN ifaces
            /\ \A k \in DOMAIN ifaces :
                  IF ifaces[k].int_interface = members[m].lagg_physnic
                  THEN /\ ifaces'[k].int_options =
                             ComputeOptions(members[m].lagg_deviceoptions)
                       /\ ifaces'[k].int_name = ifaces[k].int_name
                       /\ ifaces'[k].int_interface = ifaces[k].int_interface
                  ELSE ifaces'[k] = ifaces[k]]_vars

C10_Witness ==
    /\ pc = "relocate"
    /\ Len(ifaces) = Len(ifaces0)
    /\ \E k \in DOMAIN ifaces0 :
          /\ ifaces0[k].int_options # sEmpty
          /\ ifaces[k].int_options = sEmpty
          /\ ifaces[k].int_name = ifaces0[k].int_name

(* ----------------------- MTU extraction claims ------------------------- *)
\* the first pass of the extraction over the store is over
Pass1 == pc = "extract" /\ iTodo = {} /\ extracted = <<>>
\* the second pass is over
Pass2 == pc = "extract" /\ iTodo = {} /\ extracted # <<>>

\* s with every space that follows a space dropped
RECURSIVE SqueezeFrom(_, _)
SqueezeFrom(s, k) ==
    IF k > Len(s) THEN <<>>
    ELSE IF k > 1 /\ s[k] = " " /\ s[k - 1] = " " THEN SqueezeFrom(s, k + 1)
    ELSE <<s[k]>> \o SqueezeFrom(s, k + 1)
Squeeze(s) == SqueezeFrom(s, 1)

\* s holds the word `mtu`, one space and a whole word of digits from i to j
StandaloneMtu(s, i, j) ==
    /\ 1 <= i /\ i + 4 <= j /\ j <= Len(s)
    /\ s[i] = "m" /\ s[i + 1] = "t" /\ s[i + 2] = "u" /\ s[i + 3] = " "
    /\ (i > 1 => s[i - 1] = " ")
    /\ \A k \in (i + 4)..j : s[k] \in Digits
    /\ (j < Len(s) => s[j + 1] = " ")
HasStandaloneMtu(s) == \E i, j \in 1..Len(s) : StandaloneMtu(s, i, j)

\* C11: extraction on options holding an `mtu <N>` token sets mtu to N and
\* options to the text before the token followed by the text after it, runs
\* of spaces collapsed to one; `foo mtu 9000 bar` gives 9000 and `foo bar`.
C11_ExtractsToken ==
    Pass1 =>
       LET o == ifaces0[1].int_options
       IN /\ HasStandaloneMtu(o) =>
                \E i, j \in 1..Len(o) :
                   /\ StandaloneMtu(o, i, j)
                   /\ ifaces[1].int_mtu = ParseInt(SubSeq(o, i + 4, j))
                   /\ ifaces[1].int_options =
                         Squeeze(SubSeq(o, 1, i - 1) \o SubSeq(o, j + 1, Len(o)))
          /\ o = sFooMtuBar =>
                (ifaces[1].int_mtu = 9000 /\ ifaces[1].int_options = sFooBar)

C11_Witness ==
    /\ Pass1
    /\ HasStandaloneMtu(ifaces0[1].int_options)
    /\ Len(ifaces0[1].int_options) = 7
    /\ ifaces[1].int_mtu = 9
    /\ ifaces[1].int_options = <<" ">>

\* C12: extraction leaves a record whose options are empty or hold no
\* standalone `mtu <digits>` token as it was: mtu unset, options the same.
C12_NoMatchUnchanged ==
    Pass1 =>
       (~HasStandaloneMtu(ifaces0[1].int_options) =>
           /\ ifaces[1] = ifaces0[1]
           /\ ifaces[1].int_mtu = None)

C12_Witness ==
    /\ Pass1
    /\ Contains(ifaces0[1].int_options, sMtuSp)
    /\ ~HasStandaloneMtu(ifaces0[1].int_options)
    /\ ifaces[1] = ifaces0[1]

\* C13: a second extraction over a record the first one has processed
\* leaves its mtu and options unchanged.
C13_Idempotent ==
    Pass2 => ifaces = extracted

(* ------------------------ consolidation claims ------------------------- *)
\* no Interface row of a member NIC of LAGG l has an mtu in the store ifs
NoMemberMtu(ifs, l) ==
    \A m \in MembersOf(members, l) :
       \A k \in Lookup(ifs, members[m].lagg_physnic) : ifs[k].int_mtu = None

\* C14: when none of a LAGG's members has an Interface row with an MTU
\* (members without any row included), the consolidation never changes the
\* mtu of the LAGG's parent Interface.
C14_ParentUntouched ==
    [][\A l \in DOMAIN laggs :
          (run = 1 /\ pc = "consolidate" /\ NoMemberMtu(extracted, l)) =>
             ifaces'[Parent(l)].int_mtu = extracted[Parent(l)].int_mtu]_vars

C14_Witness ==
    /\ Done
    /\ run = 1
    /\ \E l \in DOMAIN laggs :
          /\ NoMemberMtu(extracted, l)
          /\ \E m \in MembersOf(members, l) : Lookup(ifaces, members[m].lagg_physnic) = {}
          /\ \E m \in MembersOf(members, l) : Lookup(ifaces, members[m].lagg_physnic) # {}
          /\ ifaces[Parent(l)].int_mtu = 9000

\* C15: a second consolidation, started when the first has left every member
\* row with a null mtu, finds no minimum and changes no Interface record.
C15_RerunNoop ==
    (run = 2 /\ \A l \in DOMAIN laggs : NoMemberMtu(ifaces1, l)) =>
       /\ ifaces = ifaces1
       /\ lagg # 0 => lowest_mtu = None

C15_Witness ==
    /\ Done
    /\ run = 2
    /\ \A l \in DOMAIN laggs : NoMemberMtu(ifaces1, l)
    /\ \E l \in DOMAIN laggs :
          /\ ~NoMemberMtu(extracted, l)
          /\ ifaces[Parent(l)].int_mtu = 1500
          /\ extracted[Parent(l)].int_mtu # 1500

(* --------------------- order of the operations ------------------------- *)
OpOrder == {<<"relocate", "add_field">>, <<"add_field", "extract">>,
            <<"extract", "consolidate">>, <<"consolidate", "done">>}
HasMtuField(r) == "int_mtu" \in DOMAIN r

\* C16: the operations run in the order relocate, remove device_options, add
\* mtu, extract and consolidate: device_options is read only while the field
\* exists and is removed once every member is relocated, no record has an mtu
\* before the field is added, and no LAGG is consolidated before every
\* Interface record has been through the extraction.
C16_StrictOrder ==
    /\ [][/\ pc' # pc => <<pc, pc'>> \in OpOrder
          /\ mTodo' # mTodo => "lagg_deviceoptions" \in schema
          /\ ("lagg_deviceoptions" \in schema /\ "lagg_deviceoptions" \notin schema')
                => (mTodo = {} /\ "int_mtu" \notin schema')
          /\ ("int_mtu" \notin schema /\ "int_mtu" \in schema')
                => "lagg_deviceoptions" \notin schema
          /\ (lagg' # lagg \/ cmTodo' # cmTodo \/ lTodo' # lTodo) => iTodo = {}]_vars
    /\ [](/\ "lagg_deviceoptions" \notin schema => mTodo = {}
          /\ \A k \in DOMAIN ifaces : HasMtuField(ifaces[k]) <=> "int_mtu" \in schema
          /\ \A m \in DOMAIN members :
                ("lagg_deviceoptions" \in DOMAIN members[m])
                   <=> "lagg_deviceoptions" \in schema
          /\ (pc \in {"consolidate", "done"} \/ lagg # 0) =>
                (iTodo = {} /\ schema = {"int_mtu"})
          /\ pc \in {"relocate", "add_field"} =>
                (iTodo = {} /\ lTodo = {} /\ lagg = 0))

C16_Witness ==
    /\ Done
    /\ schema = {"int_mtu"}
    /\ Len(ifaces) > Len(ifaces0)
    /\ \E k \in DOMAIN ifaces : ifaces[k].int_mtu = 1500 /\ extracted[k].int_mtu # 1500
    /\ \E k \in DOMAIN ifaces : ifaces[k].int_mtu = None /\ extracted[k].int_mtu = 9000

(* ------------------- unrecognised device_options ----------------------- *)
\* d does not hold the token that the branch taken for d removes
NoTokenToRemove(d) ==
    IF StartsWith(d, sUp) THEN ~Contains(d, sUpSp)
    ELSE IF EndsWith(d, sUp) THEN ~Contains(d, sSpUp)
    ELSE ~Contains(d, sSpUpSp)

\* C17: a device_options that is not `up` and does not hold the token its
\* branch removes is used verbatim as the options.
C17_Verbatim ==
    Computed =>
       ((lagg_deviceoptions # sUp /\ NoTokenToRemove(lagg_deviceoptions))
           => options = lagg_deviceoptions)

C17_Witness ==
    /\ Computed
    /\ StartsWith(lagg_deviceoptions, sUp)
    /\ Len(lagg_deviceoptions) >= 3
    /\ NoTokenToRemove(lagg_deviceoptions)
    /\ options = lagg_deviceoptions

(* --------------------------- Support claims ---------------------------- *)
Returned(fn) == sup_pc = "returned" /\ sup_ret # <<>> /\ sup_ret[1].fn = fn

\* C18: is_available returns a pair (bool, Support instance): the first
\* element is True only when the system is not FreeNAS and the contract is
\* silver or gold, the second element is always an instance.
C18_IsAvailable ==
    Returned("is_available") =>
       LET v == sup_ret[1].value
       IN /\ v[1] \in {"True", "False"}
          /\ v[1] = "True" => (~is_freenas /\ license \in {"silver", "gold"})
          /\ v[2] \in DOMAIN supports

\* C19: is_enabled returns a bool, True exactly when proactive support is
\* available and the enabled flag of the record is set, whatever the flag is.
C19_IsEnabled ==
    Returned("is_enabled") =>
       LET v == sup_ret[1].value
       IN /\ v \in {"True", "False"}
          /\ v = "True" <=> (/\ ~is_freenas
                             /\ license \in {"silver", "gold"}
                             /\ supports[sup_self].enabled = "True")

(* --------------------------- password claims --------------------------- *)
\* C20: every non-empty password value in the store is a plaintext encrypted
\* exactly once, whatever the sequence of loads, assignments and saves.
C20_EncryptedOnce ==
    (model \in {"Email", "Advanced"} /\ db_pass # sNoPass) => db_pass.layers = 1

(* ------------------------ iteration order claim ------------------------ *)
\* the store after lines 43-51 have visited every record
ExtractAll(ifs) == [k \in DOMAIN ifs |-> ExtractMtu(ifs[k])]

\* lines 55-64 for the members m, m + 1, ... of LAGG l in primary key order,
\* from the store and running minimum of st
RECURSIVE ScanInKeyOrder(_, _, _)
ScanInKeyOrder(st, l, m) ==
    IF m > Len(members) THEN st
    ELSE IF members[m].lagg_interfacegroup # l THEN ScanInKeyOrder(st, l, m + 1)
    ELSE LET hits == Lookup(st.ifs, members[m].lagg_physnic)
             k == Min(hits)
         IN IF hits # {} /\ Truthy(st.ifs[k].int_mtu)
            THEN ScanInKeyOrder(
                    [ifs |-> [st.ifs EXCEPT ![k].int_mtu = None],
                     lowest |-> LowerMtu(st.lowest, st.ifs[k].int_mtu)], l, m + 1)
            ELSE ScanInKeyOrder(st, l, m + 1)

\* lines 53-68 for the LAGGs l, l + 1, ... in primary key order
RECURSIVE ConsolidateInKeyOrder(_, _)
ConsolidateInKeyOrder(ifs, l) ==
    IF l > Len(laggs) THEN ifs
    ELSE LET st == ScanInKeyOrder([ifs |-> ifs, lowest |-> None], l, 1)
         IN ConsolidateInKeyOrder(
               IF Truthy(st.lowest)
               THEN [st.ifs EXCEPT ![Parent(l)].int_mtu = st.lowest]
               ELSE st.ifs, l + 1)

\* the store a run in primary key order ends with
KeyOrderResult == ConsolidateInKeyOrder(ExtractAll(ifaces0), 1)

\* no NIC is referenced by members of two different LAGGs
NoSharedNic ==
    \A m1, m2 \in DOMAIN members :
       members[m1].lagg_physnic = members[m2].lagg_physnic
          => members[m1].lagg_interfacegroup = members[m2].lagg_interfacegroup
\* no parent Interface of a LAGG is a member NIC of another LAGG
NoNestedLagg ==
    \A m \in DOMAIN members : \A l \in DOMAIN laggs :
       members[m].lagg_physnic = ifaces[Parent(l)].int_interface
          => members[m].lagg_interfacegroup = l

\* C21 as stated: whatever the order in which records, LAGGs and members are
\* iterated, the run ends with the store a run in primary key order ends
\* with, shared NICs and nested LAGGs included.
C21_AnyOrderSameResult ==
    Done => ifaces = KeyOrderResult

\* C21 amended: the same, provided no NIC is referenced by members of two
\* different LAGGs and no parent Interface is a member NIC of another LAGG.
C21_OrderIndependent ==
    (Done /\ NoSharedNic /\ NoNestedLagg) => ifaces = KeyOrderResult

C21_Witness ==
    /\ Done
    /\ NoSharedNic
    /\ NoNestedLagg
    /\ Cardinality(MembersOf(members, 1)) >= 3
    /\ \E m \in MembersOf(members, 1) : members[m].lagg_physnic = LaggName(1)
    /\ extracted[Parent(1)].int_mtu = 9000
    /\ ifaces[Parent(1)].int_mtu = 1500
    /\ ifaces = KeyOrderResult
====
